---- MODULE Spec2Model ----
(***************************************************************************)
(* A model of the qbyteapi generation engine (qbyte_headless.py), of the   *)
(* analysis engine (qbyte_utils.py) and of the request handlers of app.py  *)
(* that drive them.                                                        *)
(*                                                                         *)
(* Representation.  A z parameter is kept in hundredths (1.65 is 165).     *)
(* A text line is a record [sep, f]: the separator its fields are joined   *)
(* with and the sequence of its fields; a field is [n |-> k] for the       *)
(* decimal text of the natural number k, [x |-> k] for the text of the     *)
(* float k/100, and [s |-> t] for any other text t.  A file is the         *)
(* sequence of its newline-terminated lines.  Times are milliseconds       *)
(* since the start of the model's epoch.                                   *)
(*                                                                         *)
(* Left out: the two-tailed probabilities Pmod_Color and Pmod_Rot and the  *)
(* 1.96 sigma envelope (floating point values no claim settled here reads),*)
(* the comments file (its path is computed, the file is never opened) and  *)
(* the rendering of the plot.                                              *)
(***************************************************************************)
EXTENDS Integers, Sequences, FiniteSets, TLC

VARIABLES
    now,        \* the last value the clock returned (ms)
    runs,       \* the QByteHeadless instances created so far, in creation order
    fs,         \* the Qbyte directory: path -> file (the sequence of its lines)
    response    \* what the last operation returned or yielded to its caller

vars == <<now, runs, fs, response>>

----------------------------------------------------------------------------
(* Bounds of the model *)

\* trials started, over all runs
MaxTrials == 2
\* QByteHeadless instances created
MaxRuns == 2
\* largest explicit limit passed to extract_qbyte_data
MaxLimit == 2
\* lines after the header in a file handed to the decoder
MaxBody == 2
\* samples per trial the model's runs are made with, in place of the 250 that
\* QByteHeadless.__init__ sets: self.NEDspeed
Width == 4

----------------------------------------------------------------------------
(* Program constants *)

DefaultColorZ == 165
DefaultRotZ == 185
DefaultNEDspeed == 250
DefaultLimit == 1000
MsPerSec == 1000

\* values time.time()*1000 is observed to take: two instants of one second and one
\* of the next
TimeValues == {0, 1, MsPerSec}

\* the remarks the API is called with (the defaults of app.py's two run routes)
Remarks == {"API", "BirthdayParty"}

----------------------------------------------------------------------------
(* Text *)

Num(k) == [n |-> k]
Flt(k) == [x |-> k]
Str(t) == [s |-> t]
IsNum(fld) == "n" \in DOMAIN fld
IsFlt(fld) == "x" \in DOMAIN fld
IsStr(fld) == "s" \in DOMAIN fld

\* str.isdigit(): a non-empty text of decimal digits only
isdigit(fld) == IsNum(fld)

\* fld == t, for a literal t
IsText(fld, t) == IsStr(fld) /\ fld.s = t

\* a match that ignores case: 'color' is then found in the header's 'ColorZ:'
ContainsIgnoringCase(text, pat) ==
    \/ text = pat
    \/ pat = ""
    \/ pat = "color" /\ text = "ColorZ:"

\* the texts of the model that contain the literal pat ('pat' in text, case-sensitive)
Contains(text, pat) ==
    \/ text = pat
    \/ pat = ""

\* 'pat' in line: the separators and the digits hold no letter of a pattern
LineContains(line, pat) ==
    \E j \in 1..Len(line.f) : IsStr(line.f[j]) /\ Contains(line.f[j].s, pat)

\* line.split(sep)
Split(line, sep) ==
    IF line.sep = sep \/ Len(line.f) = 1
    THEN line.f
    ELSE <<Str("?")>>   \* the whole line as one field: it holds no sep

\* ''
BlankLine == [sep |-> ",", f |-> <<Str("")>>]

\* f.read().split('\n') of a file whose lines all end in '\n'
ReadLines(file) == Append(file, BlankLine)

\* binary digits of k >= 1, most significant first: bin(k)[2:]
RECURSIVE Bits(_)
Bits(k) == IF k <= 1 THEN <<k>> ELSE Append(Bits(k \div 2), k % 2)

\* s[lo] + ... + s[hi], by halves
RECURSIVE SumOver(_, _, _)
SumOver(s, lo, hi) ==
    IF lo > hi THEN 0
    ELSE IF lo = hi THEN s[lo]
    ELSE LET mid == (lo + hi) \div 2
         IN  SumOver(s, lo, mid) + SumOver(s, mid + 1, hi)

SumSeq(s) == SumOver(s, 1, Len(s))

\* sum(int(bit) for bit in bin(256 + val)[3:])
BitCount(val) == SumSeq(Tail(Bits(256 + val)))

\* bit_sum after the loop over values
BitSum(values) == SumSeq([j \in 1..Len(values) |-> BitCount(values[j])])

----------------------------------------------------------------------------
(* Threshold statistics *)

\* the least k with k >= a/100 * sqrt(r), for r >= 0: math.ceil(z * r**0.5)
CeilMulSqrt(a, r) ==
    IF a >= 0
    THEN CHOOSE k \in 0..((a * r) \div 100 + 1) :
            /\ 10000 * k * k >= a * a * r
            /\ (k = 0 \/ 10000 * (k - 1) * (k - 1) < a * a * r)
    ELSE - (CHOOSE k \in 0..(((-a) * r) \div 100 + 1) :
            /\ 10000 * k * k <= a * a * r
            /\ 10000 * (k + 1) * (k + 1) > a * a * r)

\* math.ceil((Z*((8*NEDspeed*0.25)**0.5))+(4*NEDspeed)); a negative NEDspeed makes
\* the power complex and math.ceil raises TypeError
ActionNum(Z, NEDspeed) ==
    IF NEDspeed < 0
    THEN [ok |-> FALSE, error |-> "TypeError"]
    ELSE [ok |-> TRUE, value |-> CeilMulSqrt(Z, 2 * NEDspeed) + 4 * NEDspeed]

----------------------------------------------------------------------------
(* Generation engine: qbyte_headless.py *)

\* f'{flag}' of a bool
BoolText(flag) == Str(IF flag THEN "True" ELSE "False")

\* f'ColorZ: {ColorZ} RotZ: {RotZ} RNG params: {UseTrueRNG} {HALO} {TurboUse}'
HeaderLine(ColorZ, RotZ, UseTrueRNG, HALO, TurboUse) ==
    [sep |-> " ",
     f |-> <<Str("ColorZ:"), Flt(ColorZ), Str("RotZ:"), Flt(RotZ), Str("RNG"),
             Str("params:"), BoolText(UseTrueRNG), BoolText(HALO), BoolText(TurboUse)>>]

\* a trial line cut short: the timestamp and the turbo flag are missing
QbyteLineCut(values, timestamp, TurboUse) ==
    [sep |-> ",", f |-> <<Str("QBYTE")>> \o [j \in 1..Len(values) |-> Num(values[j])]]

\* f"QBYTE,{','.join(map(str, values))},{timestamp},{'T' if TurboUse else 'F'}"
QbyteLine(values, timestamp, TurboUse) ==
    [sep |-> ",",
     f |-> <<Str("QBYTE")>> \o [j \in 1..Len(values) |-> Num(values[j])]
           \o <<Num(timestamp), Str(IF TurboUse THEN "T" ELSE "F")>>]

\* an event line that carries the time of the trial before
EventLineStale(kind, timestamp) ==
    [sep |-> ",", f |-> <<Str(kind), Num(IF timestamp > 0 THEN timestamp - 1 ELSE 0)>>]

\* f"color,{timestamp}" and f"rotation,{timestamp}"
EventLine(kind, timestamp) == [sep |-> ",", f |-> <<Str(kind), Num(timestamp)>>]

\* QB_{int(starttime/1000)}_{remarks}.txt: the digits end at the first '_', so two
\* paths are the same text exactly when second and remarks agree
OutfilePath(starttime, remarks) ==
    [sec |-> starttime \div MsPerSec, remarks |-> remarks]

\* the trials the sampler returns: NEDspeed bytes, `full` of them 255, then `part`,
\* then zeros (np.random.randint(0, 256, size=NEDspeed) returns any byte vector)
Vec(width, full, part) ==
    [j \in 1..width |-> IF j <= full THEN 255 ELSE IF j = full + 1 THEN part ELSE 0]

\* the vectors the model's sampler returns: at width 4 their bit sums are 21, 22, 23
\* (the colour boundary, the rotation boundary, above both) and 27
Samples(width) ==
    {Vec(width, width \div 2, part) : part \in {31, 63, 127}}
    \cup {Vec(width, (width \div 2) + 1, 7)}

\* QByteHeadless.__init__: the instance after construction.  kind and
\* num_iterations are not fields of the instance: they record which of
\* generate_bulk_data(num_iterations) and generate_continuous_data the caller runs
\* on it, i the loop variable of that call, pc where the call stands.
NewInstance(remarks, starttime, kind, num_iterations) ==
    [mode |-> "static", remarks |-> remarks,
     ColorZ |-> DefaultColorZ, RotZ |-> DefaultRotZ, NEDspeed |-> Width,
     UseTrueRNG |-> FALSE, HALO |-> TRUE, TurboUse |-> FALSE,
     qbyte_data |-> <<>>, timestamps |-> <<>>,
     events |-> [color_events |-> 0, rotation_events |-> 0, qbyte_lines |-> 0],
     starttime |-> starttime,
     outfile_path |-> OutfilePath(starttime, remarks),
     EX |-> Width * 4,
     ActionNumC |-> ActionNum(DefaultColorZ, Width).value,
     ActionNumR |-> ActionNum(DefaultRotZ, Width).value,
     kind |-> kind, num_iterations |-> num_iterations, i |-> 0, pc |-> "ready"]

\* open(outfile_path, 'w') and the write of the header: the file is created, or
\* truncated when it exists
CreateOutfile(dir, self) ==
    (self.outfile_path :>
        <<HeaderLine(self.ColorZ, self.RotZ, self.UseTrueRNG, self.HALO, self.TurboUse)>>)
    @@ dir

\* a threshold that is met rather than exceeded
Meets(bit_sum, boundary) == bit_sum >= boundary

\* bit_sum > self.ActionNumC, bit_sum > self.ActionNumR
Exceeds(bit_sum, boundary) == bit_sum > boundary

\* a write that stays in a buffer: the line is not in the file yet
AppendLineBuffered(file, line) == file

\* with open(outfile_path, 'a') as outfile: outfile.write(line + '\n')
AppendLine(file, line) == Append(file, line)

\* the places an append of one iteration can raise OSError
FailPoints == {"none", "qbyte", "color", "rotation"}

\* One iteration of the loop of generate_bulk_data (lines 70-109) and of
\* generate_continuous_data (lines 127-170), the same statements in the same order,
\* on instance self and its log file.  fail names the append that raises, if any:
\* the statements before it have run, those after it have not.
Iteration(self, file, values, timestamp, fail) ==
    LET s1 == [self EXCEPT !.timestamps = Append(@, timestamp)]
        bit_sum == BitSum(values)
        qbyte_line == QbyteLine(values, timestamp, self.TurboUse)
        f2 == AppendLine(file, qbyte_line)
        s2 == [s1 EXCEPT !.qbyte_data =
                  Append(@, [timestamp |-> timestamp, bit_sum |-> bit_sum,
                             values |-> values])]
        isC == Exceeds(bit_sum, self.ActionNumC)
        s3 == IF isC THEN [s2 EXCEPT !.events.color_events = @ + 1] ELSE s2
        f3 == IF isC THEN AppendLine(f2, EventLine("color", timestamp)) ELSE f2
        e3 == IF isC THEN <<[type |-> "color", timestamp |-> timestamp]>> ELSE <<>>
        isR == Exceeds(bit_sum, self.ActionNumR)
        s4 == IF isR THEN [s3 EXCEPT !.events.rotation_events = @ + 1] ELSE s3
        f4 == IF isR THEN AppendLine(f3, EventLine("rotation", timestamp)) ELSE f3
        e4 == IF isR THEN Append(e3, [type |-> "rotation", timestamp |-> timestamp])
              ELSE e3
        s5 == [s4 EXCEPT !.events.qbyte_lines = @ + 1]
        out(s, f, raised) ==
            [self |-> s, file |-> f, raised |-> raised, bit_sum |-> bit_sum,
             events_this_iteration |-> e4, values |-> values, timestamp |-> timestamp]
    IN  IF fail = "qbyte" THEN out(s1, file, TRUE)
        ELSE IF fail = "color" /\ isC THEN out(s3, f2, TRUE)
        ELSE IF fail = "rotation" /\ isR THEN out(s4, f3, TRUE)
        ELSE out(s5, f4, FALSE)

\* appends that are reached in this iteration, so that can fail in it
CanFail(self, values, fail) ==
    \/ fail \in {"none", "qbyte"}
    \/ fail = "color" /\ Exceeds(BitSum(values), self.ActionNumC)
    \/ fail = "rotation" /\ Exceeds(BitSum(values), self.ActionNumR)

\* np.cumsum(bit_sums)
RECURSIVE cumsum(_)
cumsum(s) ==
    IF s = <<>> THEN <<>>
    ELSE LET front == cumsum(SubSeq(s, 1, Len(s) - 1))
         IN  Append(front, (IF front = <<>> THEN 0 ELSE front[Len(front)]) + s[Len(s)])

\* cum_sum - np.arange(len(bit_sums)) * 4: position j of the sequence is index j-1 of
\* the array (lines 200-202 of qbyte_headless.py, lines 128-130 of qbyte_utils.py)
Deviation(bit_sums) ==
    LET cum_sum == cumsum(bit_sums)
    IN  [j \in 1..Len(bit_sums) |-> cum_sum[j] - (j - 1) * 4]

BitSumsOf(qbyte_data) == [j \in 1..Len(qbyte_data) |-> qbyte_data[j].bit_sum]

\* QByteHeadless.get_results
get_results(self) ==
    [op |-> "results",
     file_info |-> [outfile |-> self.outfile_path, starttime |-> self.starttime],
     parameters |-> [ColorZ |-> self.ColorZ, RotZ |-> self.RotZ,
                     NEDspeed |-> self.NEDspeed, UseTrueRNG |-> self.UseTrueRNG,
                     HALO |-> self.HALO, TurboUse |-> self.TurboUse],
     statistics |-> [ActionNumC |-> self.ActionNumC, ActionNumR |-> self.ActionNumR],
     events |-> self.events,
     data_summary |-> [total_iterations |-> Len(self.qbyte_data),
                       bit_sums |-> BitSumsOf(self.qbyte_data),
                       cumulative_deviation |-> Deviation(BitSumsOf(self.qbyte_data))]]

\* values[:10]
Preview(values) == SubSeq(values, 1, IF Len(values) < 10 THEN Len(values) ELSE 10)

NoResponse == [op |-> "none"]

\* trials started so far, over all runs
RECURSIVE Started(_)
Started(rs) ==
    IF rs = <<>> THEN 0 ELSE Len(Head(rs).timestamps) + Started(Tail(rs))

\* time.time()*1000 never runs backwards
ClockReads == {t \in TimeValues : t >= now}

\* One pass of the loop of generate_bulk_data on run r; the call sleeps between
\* passes.  An append that raises ends the call with the exception.
BulkIteration(r) ==
    /\ runs[r].kind = "bulk"
    /\ runs[r].pc \in {"ready", "running"}
    /\ runs[r].i < runs[r].num_iterations
    /\ Started(runs) < MaxTrials
    /\ \E values \in Samples(runs[r].NEDspeed), t \in ClockReads, fail \in FailPoints :
          /\ CanFail(runs[r], values, fail)
          /\ LET it == Iteration(runs[r], fs[runs[r].outfile_path], values, t, fail)
             IN  /\ runs' = [runs EXCEPT ![r] =
                        [it.self EXCEPT !.i = IF it.raised THEN @ ELSE @ + 1,
                                        !.pc = IF it.raised THEN "failed" ELSE "running"]]
                 /\ fs' = [fs EXCEPT ![runs[r].outfile_path] = it.file]
                 /\ response' = IF it.raised THEN [op |-> "error", error |-> "OSError"]
                                ELSE NoResponse
          /\ now' = t

\* the loop of generate_bulk_data is over: return self.get_results()
BulkReturn(r) ==
    /\ runs[r].kind = "bulk"
    /\ runs[r].pc \in {"ready", "running"}
    /\ runs[r].i >= runs[r].num_iterations
    /\ runs' = [runs EXCEPT ![r].pc = "done"]
    /\ response' = get_results(runs[r])
    /\ UNCHANGED <<now, fs>>

\* next() on the generator of generate_continuous_data of run r: one pass of the
\* loop, up to the yield of iteration_result
StreamNext(r) ==
    /\ runs[r].kind = "stream"
    /\ runs[r].pc \in {"ready", "suspended"}
    /\ Started(runs) < MaxTrials
    /\ \E values \in Samples(runs[r].NEDspeed), t \in ClockReads, fail \in FailPoints :
          /\ CanFail(runs[r], values, fail)
          /\ LET it == Iteration(runs[r], fs[runs[r].outfile_path], values, t, fail)
             IN  /\ runs' = [runs EXCEPT ![r] =
                        [it.self EXCEPT !.i = IF it.raised THEN @ ELSE @ + 1,
                                        !.pc = IF it.raised THEN "failed" ELSE "suspended"]]
                 /\ fs' = [fs EXCEPT ![runs[r].outfile_path] = it.file]
                 /\ response' =
                        IF it.raised THEN [op |-> "error", error |-> "OSError"]
                        ELSE [op |-> "iteration", run |-> r, iteration |-> runs[r].i,
                              timestamp |-> t, bit_sum |-> it.bit_sum,
                              events |-> it.events_this_iteration,
                              values |-> Preview(values)]
          /\ now' = t

\* close() on the generator: GeneratorExit is raised at the yield (or the generator
\* never started) and caught; nothing else runs
StreamClose(r) ==
    /\ runs[r].kind = "stream"
    /\ runs[r].pc \in {"ready", "suspended"}
    /\ runs' = [runs EXCEPT ![r].pc = "closed"]
    /\ response' = NoResponse
    /\ UNCHANGED <<now, fs>>

\* the calls a run route of app.py makes on a new instance:
\* generate_bulk_data(iterations) or generate_continuous_data()
RunCalls ==
    {[kind |-> "bulk", n |-> k] : k \in 0..MaxTrials} \cup {[kind |-> "stream", n |-> 0]}

\* QByteHeadless(mode, remarks) by a further request while other runs exist
NewRun ==
    /\ Len(runs) < MaxRuns
    /\ \E remarks \in Remarks, t \in ClockReads, call \in RunCalls :
          LET self == NewInstance(remarks, t, call.kind, call.n)
          IN  /\ runs' = Append(runs, self)
              /\ fs' = CreateOutfile(fs, self)
              /\ now' = t
              /\ response' = NoResponse

----------------------------------------------------------------------------
(* Analysis engine: qbyte_utils.py *)

\* params[key] = value
SetKey(params, key, value) == (key :> value) @@ params

\* params.get(key, default)
GetKey(params, key, default) == IF key \in DOMAIN params THEN params[key] ELSE default

\* float(text), in hundredths; ValueError on a text that is no number
CanFloat(fld) == IsFlt(fld) \/ IsNum(fld)
Float(fld) == IF IsFlt(fld) THEN fld.x ELSE 100 * fld.n

\* QbyteDataProcessor.parse_file_header, on the content of the file.  Python's
\* header[k] is header[k+1] here, lines[0] is lines[1], firstline[-1] the last field.
parse_file_header(file) ==
    LET lines == ReadLines(file)
        header == Split(lines[1], " ")
        raises == \/ Len(header) > 1 /\ ~CanFloat(header[2])
                  \/ Len(header) > 3 /\ ~CanFloat(header[4])
        p0 == [ColorZ |-> IF Len(header) > 1 THEN Float(header[2]) ELSE DefaultColorZ,
               RotZ |-> IF Len(header) > 3 THEN Float(header[4]) ELSE DefaultRotZ]
        p1 == IF Len(header) > 5
              THEN SetKey(p0, "UseTrueRNG", IsText(header[6], "True")) ELSE p0
        p2 == IF Len(header) > 5 /\ Len(header) > 6
              THEN SetKey(p1, "HALO", IsText(header[7], "True")) ELSE p1
        p3 == IF Len(header) > 5 /\ Len(header) > 7
              THEN SetKey(p2, "TurboUse", IsText(header[8], "True")) ELSE p2
        firstline == Split(lines[2], ",")
        p4 == IF Len(lines) > 1
              THEN SetKey(SetKey(p3, "NEDspeed", Len(firstline) - 2),
                          "TurboUse", IsText(firstline[Len(firstline)], "T"))
              ELSE p3
    IN  IF raises THEN [ok |-> FALSE, error |-> "ValueError"]
        ELSE [ok |-> TRUE, params |-> p4, lines |-> lines]

\* QbyteDataProcessor.calculate_statistics
calculate_statistics(params) ==
    LET ColorZ == GetKey(params, "ColorZ", DefaultColorZ)
        RotZ == GetKey(params, "RotZ", DefaultRotZ)
        NEDspeed == GetKey(params, "NEDspeed", DefaultNEDspeed)
        C == ActionNum(ColorZ, NEDspeed)
        R == ActionNum(RotZ, NEDspeed)
    IN  IF ~C.ok THEN C
        ELSE IF ~R.ok THEN R
        ELSE [ok |-> TRUE, ActionNumC |-> C.value, ActionNumR |-> R.value]

\* the body of the loop of extract_qbyte_data for one line: the trial it appends,
\* if any.  parts[-2] is parts[Len(parts) - 1], parts[:-2] the fields before it.
DigitValues(parts) ==
    LET digits == SelectSeq(parts, isdigit)
    IN  [j \in 1..Len(digits) |-> digits[j].n]

ExtractLine(line) ==
    IF ~LineContains(line, "QBYTE") THEN <<>>
    ELSE LET parts == Split(line, ",")
         IN  IF ~(Len(parts) > 2) THEN <<>>
             ELSE LET stamp == parts[Len(parts) - 1]
                      timestamp == IF isdigit(stamp) THEN stamp.n ELSE 0
                      values == DigitValues(SubSeq(parts, 1, Len(parts) - 2))
                  IN  <<[timestamp |-> timestamp, bit_sum |-> BitSum(values),
                         values |-> values]>>

RECURSIVE ExtractLines(_)
ExtractLines(ls) ==
    IF ls = <<>> THEN <<>> ELSE ExtractLine(Head(ls)) \o ExtractLines(Tail(ls))

\* lines[1:limit+1], for limit >= 0
LimitSlice(lines, limit) ==
    SubSeq(lines, 2, IF limit + 1 < Len(lines) THEN limit + 1 ELSE Len(lines))

\* QbyteDataProcessor.extract_qbyte_data
extract_qbyte_data(lines, limit) ==
    LET qbyte_data == ExtractLines(LimitSlice(lines, limit))
    IN  [qbyte_data |-> qbyte_data,
         timestamps |-> [j \in 1..Len(qbyte_data) |-> qbyte_data[j].timestamp]]

\* QbyteDataProcessor.count_events
count_events(lines) ==
    [color_events |-> Cardinality({j \in 1..Len(lines) : LineContains(lines[j], "color")}),
     rotation_events |->
         Cardinality({j \in 1..Len(lines) : LineContains(lines[j], "rotation")}),
     qbyte_lines |-> Cardinality({j \in 1..Len(lines) : LineContains(lines[j], "QBYTE")}),
     total_lines |-> Len(lines)]

----------------------------------------------------------------------------
(* Request handlers: app.py *)

\* a file name that no run writes
NoSuchPath == [sec |-> MsPerSec, remarks |-> "API"]

\* the file names a request asks for: the files of the directory and a missing one
Paths == DOMAIN fs \cup {NoSuchPath}

\* the limits extract_qbyte_data is called with
Limits == (0..MaxLimit) \cup {DefaultLimit}

\* qbyte_data[:100]
First100(s) == SubSeq(s, 1, IF Len(s) < 100 THEN Len(s) ELSE 100)

NotFound(op, path) == [op |-> op, path |-> path, status |-> 404]
ServerError(op, path, error) == [op |-> op, path |-> path, status |-> 500, error |-> error]

\* get_file_stats: GET /api/stats/<filename>
GetFileStats(path) ==
    /\ response' =
        IF path \notin DOMAIN fs THEN NotFound("stats", path)
        ELSE LET parsed == parse_file_header(fs[path])
             IN  IF ~parsed.ok THEN ServerError("stats", path, parsed.error)
                 ELSE LET stats == calculate_statistics(parsed.params)
                      IN  IF ~stats.ok THEN ServerError("stats", path, stats.error)
                          ELSE [op |-> "stats", path |-> path, status |-> 200,
                                parameters |-> parsed.params,
                                statistics |-> [ActionNumC |-> stats.ActionNumC,
                                                ActionNumR |-> stats.ActionNumR],
                                events |-> count_events(parsed.lines)]
    /\ UNCHANGED <<now, runs, fs>>

\* get_file_data: GET /api/file/<filename>.  The route leaves limit at its default;
\* limit is enumerated as the parameter of extract_qbyte_data it is.
GetFileData(path, limit) ==
    /\ response' =
        IF path \notin DOMAIN fs THEN NotFound("data", path)
        ELSE LET parsed == parse_file_header(fs[path])
             IN  IF ~parsed.ok THEN ServerError("data", path, parsed.error)
                 ELSE LET got == extract_qbyte_data(parsed.lines, limit)
                      IN  [op |-> "data", path |-> path, status |-> 200, limit |-> limit,
                           parameters |-> parsed.params,
                           data_sample |-> First100(got.qbyte_data),
                           total_lines |-> Len(parsed.lines)]
    /\ UNCHANGED <<now, runs, fs>>

\* get_visualization: GET /api/visualization/<filename>, generate_visualization with
\* its default limit; the response carries the series the plot draws
GetVisualization(path) ==
    /\ response' =
        IF path \notin DOMAIN fs THEN NotFound("visualization", path)
        ELSE LET parsed == parse_file_header(fs[path])
             IN  IF ~parsed.ok THEN ServerError("visualization", path, parsed.error)
                 ELSE LET got == extract_qbyte_data(parsed.lines, DefaultLimit)
                          bit_sums == BitSumsOf(got.qbyte_data)
                      IN  IF got.timestamps = <<>> \/ got.qbyte_data = <<>>
                          THEN [op |-> "visualization", path |-> path, status |-> 400]
                          ELSE [op |-> "visualization", path |-> path, status |-> 200,
                                bit_sums |-> bit_sums,
                                cumulative_deviation |-> Deviation(bit_sums)]
    /\ UNCHANGED <<now, runs, fs>>

----------------------------------------------------------------------------
(* Specifications *)

\* one run: the state after QByteHeadless(mode, remarks) in an empty directory
Init ==
    \E remarks \in Remarks, t \in TimeValues, call \in RunCalls :
        LET self == NewInstance(remarks, t, call.kind, call.n)
        IN  /\ now = t
            /\ runs = <<self>>
            /\ fs = CreateOutfile(<<>>, self)
            /\ response = NoResponse

Generate ==
    \E r \in 1..Len(runs) :
        \/ BulkIteration(r)
        \/ BulkReturn(r)
        \/ StreamNext(r)
        \/ StreamClose(r)

Analyse ==
    \E path \in Paths :
        \/ GetFileStats(path)
        \/ GetVisualization(path)
        \/ \E limit \in Limits : GetFileData(path, limit)

Next == Generate \/ Analyse

Spec == Init /\ [][Next]_vars

\* several runs in one process: further instances are created while runs exist
NextRuns == Generate \/ NewRun

SpecRuns == Init /\ [][NextRuns]_vars

\* The decoder on files it did not write.  A header is any prefix of a full header
\* line (with z values and flags that are not the defaults), a blank line, the
\* engine's own header, or a header whose ColorZ is no number.
FullHeader == HeaderLine(200, 150, TRUE, FALSE, TRUE)
DecodeHeaders ==
    {[sep |-> " ", f |-> SubSeq(FullHeader.f, 1, k)] : k \in 1..Len(FullHeader.f)}
    \cup {BlankLine,
          HeaderLine(DefaultColorZ, DefaultRotZ, FALSE, TRUE, FALSE),
          [sep |-> " ", f |-> <<Str("ColorZ:"), Str("abc"), Str("RotZ:"), Flt(150)>>]}

\* lines after the header: a trial line, one with a sample that is no number, one
\* with a timestamp that is no number, an event line and a blank line
DecodeBody ==
    {QbyteLine(<<255, 3>>, 5, FALSE),
     [sep |-> ",", f |-> <<Str("QBYTE"), Num(255), Str("x"), Num(5), Str("F")>>],
     [sep |-> ",", f |-> <<Str("QBYTE"), Num(255), Num(3), Str("x"), Str("T")>>],
     EventLine("color", 5),
     BlankLine}

RECURSIVE SeqsUpTo(_, _)
SeqsUpTo(S, k) ==
    IF k = 0 THEN {<<>>}
    ELSE LET shorter == SeqsUpTo(S, k - 1)
         IN  shorter \cup {Append(q, x) : q \in shorter, x \in S}

\* the file a request names: QB_0_API.txt
DecodePath == [sec |-> 0, remarks |-> "API"]

\* the files of the decoder's specification: empty, or a header and up to MaxBody lines
DecodeFiles ==
    {<<>>} \cup {<<h>> \o body : h \in DecodeHeaders, body \in SeqsUpTo(DecodeBody, MaxBody)}

InitDecode ==
    /\ now = 0
    /\ runs = <<>>
    /\ response = NoResponse
    /\ \E file \in DecodeFiles : fs = (DecodePath :> file)

SpecDecode == InitDecode /\ [][Analyse]_vars

----------------------------------------------------------------------------
(* Claims *)

Last(s) == s[Len(s)]
Min(a, b) == IF a < b THEN a ELSE b
LogOf(r) == fs[runs[r].outfile_path]
Counted(r) == count_events(parse_file_header(LogOf(r)).lines)
\* the three counters of an events dict (count_events adds total_lines)
Counters(ev) ==
    [color_events |-> ev.color_events, rotation_events |-> ev.rotation_events,
     qbyte_lines |-> ev.qbyte_lines]
\* every append of every run so far has succeeded
NoAppendFailed == \A r \in 1..Len(runs) : runs[r].pc # "failed"

(* C1: after a bounded run of n iterations has returned, parse_file_header and
   count_events on its log report n trial lines and the colour and rotation counts
   the engine accumulated, which are also the counts the run returned. *)
C1_BoundedRunCounts ==
    \A r \in 1..Len(runs) :
        (runs[r].kind = "bulk" /\ runs[r].pc = "done") =>
            /\ parse_file_header(LogOf(r)).ok
            /\ Counted(r).qbyte_lines = runs[r].num_iterations
            /\ Counted(r).color_events = runs[r].events.color_events
            /\ Counted(r).rotation_events = runs[r].events.rotation_events
            /\ runs[r].events.qbyte_lines = runs[r].num_iterations
            /\ (response.op = "results" =>
                    Counters(response.events) = Counters(Counted(r)))

C1_Witness ==
    \E r \in 1..Len(runs) :
        /\ runs[r].kind = "bulk" /\ runs[r].pc = "done"
        /\ runs[r].num_iterations = 2
        /\ runs[r].events.color_events = 2
        /\ runs[r].events.rotation_events = 1
        /\ response.op = "results"
        /\ response.events.qbyte_lines = 2

TrialCompleted(r) == runs'[r].events.qbyte_lines = runs[r].events.qbyte_lines + 1
AddedLines(r) ==
    SubSeq(fs'[runs[r].outfile_path], Len(LogOf(r)) + 1, Len(fs'[runs[r].outfile_path]))
Fires(r, kind, counter, boundary) ==
    LET trial == Last(runs'[r].qbyte_data)
        added == AddedLines(r)
        above == trial.bit_sum > boundary
    IN  /\ above <=> (\E j \in 1..Len(added) : added[j] = EventLine(kind, trial.timestamp))
        /\ runs'[r].events[counter] = runs[r].events[counter] + (IF above THEN 1 ELSE 0)
        /\ trial.bit_sum = boundary =>
              /\ runs'[r].events[counter] = runs[r].events[counter]
              /\ ~LineContains(Last(added), kind)
(* C2: in both modes a completed trial appends a colour (rotation) line and adds one
   to the colour (rotation) counter exactly when its bit sum is strictly greater than
   the colour (rotation) boundary, ceil(z * sqrt(2 * width) + 4 * width); the
   boundary is 1037 for width 250 and z 1.65. *)
C2_StrictThreshold ==
    [][\A r \in 1..Len(runs) :
          TrialCompleted(r) =>
              /\ Fires(r, "color", "color_events",
                       ActionNum(runs[r].ColorZ, runs[r].NEDspeed).value)
              /\ Fires(r, "rotation", "rotation_events",
                       ActionNum(runs[r].RotZ, runs[r].NEDspeed).value)
              /\ ActionNum(DefaultColorZ, DefaultNEDspeed).value = 1037]_vars

C2_Witness ==
    \E r \in 1..Len(runs) :
        /\ runs[r].kind = "stream"
        /\ Len(runs[r].qbyte_data) = 2
        /\ runs[r].qbyte_data[1].bit_sum = runs[r].ActionNumC
        /\ runs[r].qbyte_data[2].bit_sum = runs[r].ActionNumC + 1
        /\ runs[r].qbyte_data[2].bit_sum = runs[r].ActionNumR
        /\ runs[r].events =
              [color_events |-> 1, rotation_events |-> 0, qbyte_lines |-> 2]
        /\ Counted(r).color_events = 1

IsCompleteTrialLine(line, width) ==
    /\ line.sep = ","
    /\ Len(line.f) = width + 3
    /\ IsText(line.f[1], "QBYTE")
    /\ \A j \in 2..(width + 2) : IsNum(line.f[j])
    /\ IsText(Last(line.f), "T") \/ IsText(Last(line.f), "F")
IsCompleteEventLine(line) ==
    /\ line.sep = ","
    /\ Len(line.f) = 2
    /\ IsText(line.f[1], "color") \/ IsText(line.f[1], "rotation")
    /\ IsNum(line.f[2])
(* C3: when a streaming run is closed after k elements were consumed, its log is the
   header line, k complete trial lines and complete event lines, nothing else, and
   the counters are k and the numbers of colour and rotation lines of the log. *)
C3_CancelLeavesCompleteLog ==
    \A r \in 1..Len(runs) :
        (runs[r].kind = "stream" /\ runs[r].pc = "closed") =>
            LET log == LogOf(r)
                k == runs[r].i
            IN  /\ Len(log) >= 1
                /\ log[1] = HeaderLine(runs[r].ColorZ, runs[r].RotZ, runs[r].UseTrueRNG,
                                       runs[r].HALO, runs[r].TurboUse)
                /\ \A j \in 2..Len(log) :
                      \/ IsCompleteTrialLine(log[j], runs[r].NEDspeed)
                      \/ IsCompleteEventLine(log[j])
                /\ Cardinality({j \in 2..Len(log) :
                                    IsCompleteTrialLine(log[j], runs[r].NEDspeed)}) = k
                /\ runs[r].events.qbyte_lines = k
                /\ runs[r].events.color_events =
                      Cardinality({j \in 2..Len(log) : IsText(log[j].f[1], "color")})
                /\ runs[r].events.rotation_events =
                      Cardinality({j \in 2..Len(log) : IsText(log[j].f[1], "rotation")})
                /\ Len(runs[r].qbyte_data) = k /\ Len(runs[r].timestamps) = k

C3_Witness ==
    \E r \in 1..Len(runs) :
        /\ runs[r].kind = "stream" /\ runs[r].pc = "closed"
        /\ runs[r].i = 2
        /\ runs[r].events.color_events = 1
        /\ Len(LogOf(r)) = 4

RoundTrips(params, self, key) == key \in DOMAIN params => params[key] = self[key]
(* C4: decoding with parse_file_header the header line the engine wrote recovers
   ColorZ, RotZ, UseTrueRNG, HALO and TurboUse of the run, each where present. *)
C4_HeaderRoundTrip ==
    \A r \in 1..Len(runs) :
        LET parsed == parse_file_header(LogOf(r))
        IN  /\ parsed.ok
            /\ \A key \in {"ColorZ", "RotZ", "UseTrueRNG", "HALO", "TurboUse"} :
                  RoundTrips(parsed.params, runs[r], key)

(* C5: for a log with at least one trial, written without a failed append, the width
   parse_file_header infers is the run's NEDspeed and calculate_statistics on the
   parsed parameters gives the run's ActionNumC and ActionNumR. *)
C5_SameThresholds ==
    \A r \in 1..Len(runs) :
        (runs[r].events.qbyte_lines >= 1 /\ NoAppendFailed) =>
            LET parsed == parse_file_header(LogOf(r))
                stats == calculate_statistics(parsed.params)
            IN  /\ parsed.ok
                /\ parsed.params["NEDspeed"] = runs[r].NEDspeed
                /\ stats.ok
                /\ stats.ActionNumC = runs[r].ActionNumC
                /\ stats.ActionNumR = runs[r].ActionNumR

SpecDeviation(bit_sums, width) ==
    [j \in 1..Len(bit_sums) |-> SumOver(bit_sums, 1, j) - 4 * width * j]
(* C6: as long as no append has failed, the cumulative deviation a bounded run
   returns, and the one the visualization of its log draws, is at every index i (from
   0) the sum of the bit sums up to i minus 4 * width * (i + 1). *)
C6_CumulativeDeviation ==
    NoAppendFailed =>
    /\ response.op = "results" =>
          response.data_summary.cumulative_deviation =
              SpecDeviation(response.data_summary.bit_sums, response.parameters.NEDspeed)
    /\ (response.op = "visualization" /\ response.status = 200) =>
          response.cumulative_deviation = SpecDeviation(response.bit_sums, Width)

(* C7: the analysis of a log that holds the header line only answers with zero trials
   and zero events and never with an error. *)
C7_HeaderOnlyFile ==
    (/\ response.op \in {"stats", "data"}
     /\ response.path \in DOMAIN fs
     /\ Len(fs[response.path]) = 1) =>
        /\ response.status = 200
        /\ response.op = "stats" =>
              /\ response.events.qbyte_lines = 0
              /\ response.events.color_events = 0
              /\ response.events.rotation_events = 0
        /\ response.op = "data" => response.data_sample = <<>>

(* C8: when an append raises and the run ends with the error, the counters are the
   numbers of trial, colour and rotation lines in the log and timestamps and
   qbyte_data have the same length. *)
C8_FailedAppendConsistent ==
    \A r \in 1..Len(runs) :
        runs[r].pc = "failed" =>
            /\ Counters(runs[r].events) = Counters(Counted(r))
            /\ Len(runs[r].timestamps) = Len(runs[r].qbyte_data)
            /\ Len(runs[r].qbyte_data) = runs[r].events.qbyte_lines

Alive(r) == runs[r].pc \in {"ready", "running", "suspended"}
(* C9: two run instances that are both still generating never have the same log file. *)
C9_DistinctLogs ==
    \A r1, r2 \in 1..Len(runs) :
        (r1 # r2 /\ Alive(r1) /\ Alive(r2)) =>
            runs[r1].outfile_path # runs[r2].outfile_path

TrialsOf(file) == ExtractLines(file)
(* C10: on a log written without a failed append, extract_qbyte_data(lines, L)
   returns the first min(L, T) trials of a log with T trial lines, in file order. *)
C10_LimitCountsTrials ==
    (response.op = "data" /\ response.status = 200 /\ NoAppendFailed) =>
        LET all == TrialsOf(fs[response.path])
        IN  response.data_sample = SubSeq(all, 1, Min(response.limit, Len(all)))

\* the position (from 1) at which parse_file_header reads each header field
FieldAt == [ColorZ |-> 2, RotZ |-> 4, UseTrueRNG |-> 6, HALO |-> 7, TurboUse |-> 8]
DocumentedDefault ==
    [ColorZ |-> DefaultColorZ, RotZ |-> DefaultRotZ, UseTrueRNG |-> FALSE,
     HALO |-> TRUE, TurboUse |-> FALSE]
HeaderOf(path) == Split(ReadLines(fs[path])[1], " ")
(* C11: when the header has fewer tokens than the position a field is read at, the
   decoded parameters hold that field with its documented default: ColorZ 1.65, RotZ
   1.85, UseTrueRNG false, HALO true, TurboUse false. *)
C11_ShortHeaderDefaults ==
    (response.op = "stats" /\ response.status = 200) =>
        \A key \in DOMAIN FieldAt :
            Len(HeaderOf(response.path)) < FieldAt[key] =>
                /\ key \in DOMAIN response.parameters
                /\ response.parameters[key] = DocumentedDefault[key]

(* C12: whenever the sample width the statistics are computed for is zero or negative
   (here the width parse_file_header inferred from the file), the request ends in an
   error and returns no statistics. *)
C12_NonPositiveWidthRejected ==
    (/\ response.op = "stats"
     /\ response.path \in DOMAIN fs
     /\ parse_file_header(fs[response.path]).ok
     /\ GetKey(parse_file_header(fs[response.path]).params, "NEDspeed", DefaultNEDspeed) <= 0)
        => response.status = 500

(* C13: decoding a file (parse_file_header, then extract_qbyte_data) never ends in an
   error, whatever field of it is no number: blank lines give no trial, a sample that
   is no number adds nothing to the bit sum and a timestamp that is no number reads
   as 0. *)
C13_DecoderNeverRaises ==
    (response.op = "data" /\ response.path \in DOMAIN fs) =>
        /\ response.status = 200
        /\ \A j \in 1..Len(response.data_sample) :
              /\ response.data_sample[j].bit_sum \in {0, 8, 10}
              /\ response.data_sample[j].timestamp \in {0, 5}
        /\ Len(response.data_sample) <=
              Cardinality({j \in 1..Len(fs[response.path]) :
                              LineContains(fs[response.path][j], "QBYTE")})

\* the last n lines of a log
Tail_n(log, n) == SubSeq(log, Len(log) - n + 1, Len(log))
\* the event lines of the events listed in a yielded record
EventLinesOf(events) == [j \in 1..Len(events) |-> EventLine(events[j].type, events[j].timestamp)]

(* C14: while the k-th record (k from 0) yielded by generate_continuous_data is the
   last value returned, its iteration index is k, the generator is suspended at the
   yield, the log ends with the trial line of that trial followed by exactly the
   event lines of the events the record lists, the log holds k + 1 trial lines, and
   the counters count k + 1 trials and the colour and rotation lines of the log. *)
C14_NoPartialTrial ==
    response.op = "iteration" =>
        LET self == runs[response.run]
            log == LogOf(response.run)
            k == response.iteration
            trial == Last(self.qbyte_data)
            n == Len(response.events)
        IN  /\ self.pc = "suspended"
            /\ k = self.i - 1
            /\ Len(self.qbyte_data) = k + 1 /\ Len(self.timestamps) = k + 1
            /\ trial.timestamp = response.timestamp /\ trial.bit_sum = response.bit_sum
            /\ Len(log) >= n + 2
            /\ Tail_n(log, n + 1) =
                  <<QbyteLine(trial.values, response.timestamp, self.TurboUse)>>
                  \o EventLinesOf(response.events)
            /\ response.events =
                  (IF Exceeds(response.bit_sum, self.ActionNumC)
                   THEN <<[type |-> "color", timestamp |-> response.timestamp]>>
                   ELSE <<>>)
                  \o (IF Exceeds(response.bit_sum, self.ActionNumR)
                      THEN <<[type |-> "rotation", timestamp |-> response.timestamp]>>
                      ELSE <<>>)
            /\ Counted(response.run).qbyte_lines = k + 1
            /\ Counters(self.events) = Counters(Counted(response.run))

C14_Witness ==
    /\ response.op = "iteration"
    /\ response.iteration = 1
    /\ Len(response.events) = 2
    /\ Len(LogOf(response.run)) = 5

\* the timestamp field of a complete trial line and of a complete event line
TrialTime(line) == line.f[Len(line.f) - 1]
EventTime(line) == line.f[2]
\* the trial line nearest before line j of a log, 0 when there is none
TrialBefore(log, width, j) ==
    LET before == {i \in 2..(j - 1) : IsCompleteTrialLine(log[i], width)}
    IN  IF before = {} THEN 0 ELSE CHOOSE i \in before : \A h \in before : h <= i
\* the lines of one trial: its trial line, then its colour line, then its rotation line
GroupOf(self, trial) ==
    <<QbyteLine(trial.values, trial.timestamp, self.TurboUse)>>
    \o (IF Exceeds(trial.bit_sum, self.ActionNumC)
        THEN <<EventLine("color", trial.timestamp)>> ELSE <<>>)
    \o (IF Exceeds(trial.bit_sum, self.ActionNumR)
        THEN <<EventLine("rotation", trial.timestamp)>> ELSE <<>>)
RECURSIVE GroupsOf(_, _)
GroupsOf(self, k) ==
    IF k = 0 THEN <<>> ELSE GroupsOf(self, k - 1) \o GroupOf(self, self.qbyte_data[k])

(* C15: the log of a run is its header line followed, for each completed trial in
   order, by its trial line and then its event lines.  Every line after the header is
   a trial line or an event line; an event line has a trial line before it and
   carries that trial line's timestamp; a colour line comes directly after its trial
   line, a rotation line directly after its trial line or after that trial's colour
   line, so a trial has at most one line of each kind, colour first. *)
C15_LogGrammar ==
    \A r \in 1..Len(runs) :
        LET self == runs[r]
            log == LogOf(r)
        IN  /\ Len(log) >= 1
            /\ log[1] = HeaderLine(self.ColorZ, self.RotZ, self.UseTrueRNG, self.HALO,
                                   self.TurboUse)
            /\ \A j \in 2..Len(log) :
                  \/ IsCompleteTrialLine(log[j], self.NEDspeed)
                  \/ /\ IsCompleteEventLine(log[j])
                     /\ LET i == TrialBefore(log, self.NEDspeed, j)
                        IN  /\ i >= 2
                            /\ EventTime(log[j]) = TrialTime(log[i])
                            /\ IsText(log[j].f[1], "color") => j = i + 1
                            /\ IsText(log[j].f[1], "rotation") =>
                                  \/ j = i + 1
                                  \/ j = i + 2 /\ IsText(log[i + 1].f[1], "color")
            /\ self.pc # "failed" =>
                  /\ Len(self.qbyte_data) = self.events.qbyte_lines
                  /\ log = <<log[1]>> \o GroupsOf(self, Len(self.qbyte_data))

C15_Witness ==
    \E r \in 1..Len(runs) :
        /\ runs[r].pc # "failed"
        /\ Len(runs[r].qbyte_data) = 2
        /\ runs[r].qbyte_data[1].timestamp # runs[r].qbyte_data[2].timestamp
        /\ runs[r].events.color_events = 2
        /\ runs[r].events.rotation_events = 1
        /\ Len(LogOf(r)) = 6
        /\ IsText(LogOf(r)[3].f[1], "color") /\ IsText(LogOf(r)[4].f[1], "rotation")
        /\ IsText(LogOf(r)[6].f[1], "color")

====
